---- MODULE Spec2Model ----
(***************************************************************************)
(* Model of ContentBasedRecommender (src/recommender.py): the constructor, *)
(* preprocess(), train(), recommend() and get_books_by_genre().            *)
(*                                                                         *)
(* Strings are sequences of one-character strings, so that str.lower(),    *)
(* the tokenizer of TfidfVectorizer and the substring search of            *)
(* str.contains() are computed character by character.  Corpus positions   *)
(* are 0-based as in the code; books_df and the rows of cosine_sim are     *)
(* sequences, so position p is element p + 1.                              *)
(* None is modelled by the empty sequence << >> (cosine_sim, indices, and  *)
(* the 'features' cell of a row before preprocess()).                      *)
(***************************************************************************)
EXTENDS Integers, Sequences, FiniteSets, TLC

VARIABLES
    books_df,    \* self.books_df: the rows, each with its row label
    cosine_sim,  \* self.cosine_sim: the N x N matrix, or None
    indices,     \* self.indices: the Series title -> row label, or None
    last,        \* the call that has just returned to the caller, or NoCall
    prev         \* a recommend call the built engine answered earlier

vars == <<books_df, cosine_sim, indices, last, prev>>

----------------------------------------------------------------------------
(* Bounds *)

\* largest corpus handed to the constructor
MaxN == 3

\* largest top_n passed to a query (the smallest is -1)
MaxTopN == 2

----------------------------------------------------------------------------
(* Characters and strings *)

UpperChars == <<"A", "B", "C", "D", "E", "F", "G", "H", "I", "J", "K", "L", "M",
                "N", "O", "P", "Q", "R", "S", "T", "U", "V", "W", "X", "Y", "Z">>

LowerChars == <<"a", "b", "c", "d", "e", "f", "g", "h", "i", "j", "k", "l", "m",
                "n", "o", "p", "q", "r", "s", "t", "u", "v", "w", "x", "y", "z">>

DigitChars == <<"0", "1", "2", "3", "4", "5", "6", "7", "8", "9">>

Range(s) == {s[k] : k \in DOMAIN s}

\* the lowercase letter of each uppercase letter
LowerOf ==
    [c \in Range(UpperChars) |->
        LowerChars[CHOOSE k \in DOMAIN UpperChars : UpperChars[k] = c]]

\* str.lower() on one character
LowerChar(c) == IF c \in DOMAIN LowerOf THEN LowerOf[c] ELSE c

\* str.lower()
Lower(s) == [k \in DOMAIN s |-> LowerChar(s[k])]

WordChars == Range(UpperChars) \cup Range(LowerChars) \cup Range(DigitChars) \cup {"_"}

\* the regular-expression class \w
IsWordChar(c) == c \in WordChars

Space == <<" ">>

NanStr == <<"n", "a", "n">>

\* a missing cell of the table read from the CSV file (float NaN)
NaN == [kind |-> "nan", s |-> << >>]

Text(s) == [kind |-> "str", s |-> s]

\* Series.astype(str): a string stays, a missing value becomes "nan"
AsStr(cell) == IF cell.kind = "nan" THEN NanStr ELSE cell.s

----------------------------------------------------------------------------
(* The datasets the constructor is handed *)

RawRow(title, author, publisher) ==
    [title |-> title, author |-> author, publisher |-> publisher]

\* "Love Spring" / "Ann" / "Tor"
RowAnn == RawRow(Text(<<"L", "o", "v", "e", " ", "S", "p", "r", "i", "n", "g">>),
                 Text(<<"A", "n", "n">>), Text(<<"T", "o", "r">>))

\* "LOVE SPRING" / "ann" / "TOR": another title, the same lowercased features
RowUpper == RawRow(Text(<<"L", "O", "V", "E", " ", "S", "P", "R", "I", "N", "G">>),
                   Text(<<"a", "n", "n">>), Text(<<"T", "O", "R">>))

\* "Love Spring" / missing / "Ace": the same title, other features
RowAce == RawRow(Text(<<"L", "o", "v", "e", " ", "S", "p", "r", "i", "n", "g">>),
                 NaN, Text(<<"A", "c", "e">>))

\* "The" / "A" / "I": a stop word and one-letter words only
RowThe == RawRow(Text(<<"T", "h", "e">>), Text(<<"A">>), Text(<<"I">>))

Catalogue == {RowAnn, RowUpper, RowAce, RowThe}

\* the tables (sequences of raw rows) of 1..MaxN rows
Datasets == UNION {[1..n -> Catalogue] : n \in 1..MaxN}

\* the titles a query is made with: those of the catalogue and a title
\* that no row bears, differing from one of them in case only
QueryTitles == {AsStr(r.title) : r \in Catalogue} \cup {<<"l", "o", "v", "e", " ", "s", "p", "r", "i", "n", "g">>}

QueryGenres == {"Fantasy", "Mystery", "Romance", "Sci-Fi", "Horror", "fantasy"}

TopNs == (0 - 1)..MaxTopN

----------------------------------------------------------------------------
(* __init__ *)

\* the row labels of a table read by pd.read_csv and cut by head(): 0..N-1
RangeIndex(n) == [p \in 1..n |-> p - 1]

\* self.books_df after the three astype(str) assignments
Construct(raw, labels) ==
    [p \in DOMAIN raw |->
        [label     |-> labels[p],
         title     |-> AsStr(raw[p].title),
         author    |-> AsStr(raw[p].author),
         publisher |-> AsStr(raw[p].publisher),
         features  |-> << >>]]

NoCall == [op |-> "none", title |-> << >>, genre |-> "", top_n |-> 0,
           kind |-> "none", idx |-> 0 - 1, items |-> << >>]

Init ==
    /\ \E raw \in Datasets : books_df = Construct(raw, RangeIndex(Len(raw)))
    /\ cosine_sim = << >>
    /\ indices = << >>
    /\ last = NoCall
    /\ prev = NoCall

----------------------------------------------------------------------------
(* preprocess *)

Features(row) == Lower(row.title \o Space \o row.author \o Space \o row.publisher)

Returned(op) == [NoCall EXCEPT !.op = op, !.kind = "None"]

\* preprocess() is run once, on the table that has no 'features' column yet
Preprocess ==
    /\ last = NoCall
    /\ \E p \in DOMAIN books_df : books_df[p].features = << >>
    /\ books_df' = [p \in DOMAIN books_df |->
                       [books_df[p] EXCEPT !.features = Features(books_df[p])]]
    /\ last' = Returned("preprocess")
    /\ UNCHANGED <<cosine_sim, indices, prev>>

----------------------------------------------------------------------------
(* train: TfidfVectorizer(stop_words='english').fit_transform *)

\* the members of sklearn's English stop word list that the texts of the
\* catalogue can contain
StopWords == {<<"t", "h", "e">>, <<"o", "f">>, <<"a", "n", "d">>, <<"a">>, <<"i">>}

\* token_pattern (?u)\b\w\w+\b : the maximal runs of word characters, those
\* of two characters or more.  cur is the run being read at position k.
RECURSIVE Runs(_, _, _)
Runs(s, k, cur) ==
    IF k > Len(s)
    THEN IF Len(cur) >= 2 THEN <<cur>> ELSE << >>
    ELSE IF IsWordChar(s[k])
         THEN Runs(s, k + 1, Append(cur, s[k]))
         ELSE (IF Len(cur) >= 2 THEN <<cur>> ELSE << >>) \o Runs(s, k + 1, << >>)

\* build_analyzer(): lowercase, tokenize, drop the stop words
Analyze(doc) == SelectSeq(Runs(Lower(doc), 1, << >>), LAMBDA t : t \notin StopWords)

\* term frequency of term t in a token sequence
Tf(tokens, t) == Cardinality({k \in DOMAIN tokens : tokens[k] = t})

\* round(10 * ln k), k = 1..8: the weights are kept in tenths, where the
\* code keeps them in float64
Ln10 == <<0, 7, 11, 14, 16, 18, 19, 21>>

\* smooth idf, ln((1 + n) / (1 + df)) + 1, in tenths
Idf(n, df) == Ln10[1 + n] - Ln10[1 + df] + 10

RECURSIVE SumOver(_, _)
SumOver(S, f) ==
    IF S = {} THEN 0
    ELSE LET x == CHOOSE y \in S : TRUE IN f[x] + SumOver(S \ {x}, f)

\* the least r with r * r >= x, searched in lo..hi
RECURSIVE CeilSqrtIn(_, _, _)
CeilSqrtIn(x, lo, hi) ==
    IF lo >= hi THEN lo
    ELSE LET mid == (lo + hi) \div 2
         IN IF mid * mid >= x THEN CeilSqrtIn(x, lo, mid)
                              ELSE CeilSqrtIn(x, mid + 1, hi)

CeilSqrt(x) == CeilSqrtIn(x, 0, 46340)

\* the similarities are kept in thousandths
SimScale == 1000

\* variant: TfidfVectorizer(norm=None), the rows are not normalised and the
\* kernel is the plain dot product of the tf-idf weights (here in hundredths)
LinearKernelRaw(docs) ==
    LET n == Len(docs)
        vocabulary == UNION {Range(docs[p]) : p \in 1..n}
        df == [t \in vocabulary |-> Cardinality({p \in 1..n : t \in Range(docs[p])})]
        w == [p \in 1..n |-> [t \in vocabulary |-> Tf(docs[p], t) * Idf(n, df[t])]]
    IN [p \in 1..n |-> [q \in 1..n |->
           SumOver(vocabulary, [t \in vocabulary |-> w[p][t] * w[q][t]])]]

\* linear_kernel(tfidf_matrix, tfidf_matrix) for the token sequences docs:
\* the dot products of the L2-normalised tf-idf rows; a row with no term
\* stays the zero row
LinearKernel(docs) ==
    LET n == Len(docs)
        vocabulary == UNION {Range(docs[p]) : p \in 1..n}
        df == [t \in vocabulary |-> Cardinality({p \in 1..n : t \in Range(docs[p])})]
        w == [p \in 1..n |-> [t \in vocabulary |-> Tf(docs[p], t) * Idf(n, df[t])]]
        dot == [p \in 1..n |-> [q \in 1..n |->
                   SumOver(vocabulary, [t \in vocabulary |-> w[p][t] * w[q][t]])]]
    IN [p \in 1..n |-> [q \in 1..n |->
           IF dot[p][p] = 0 \/ dot[q][q] = 0 THEN 0
           ELSE (SimScale * dot[p][q]) \div CeilSqrt(dot[p][p] * dot[q][q])]]

\* Series.drop_duplicates(): drops the entries whose VALUE occurred before
DropDuplicates(series) ==
    SelectSeq([k \in DOMAIN series |->
                  [series[k] EXCEPT !.first =
                      \A j \in 1..(k - 1) : series[j].value # series[k].value]],
              LAMBDA e : e.first)

\* pd.Series(self.books_df.index, index=self.books_df['Book-Title'])
TitleSeries(df) ==
    [p \in DOMAIN df |-> [title |-> df[p].title, value |-> df[p].label, first |-> TRUE]]

\* train() raises: no 'features' column (KeyError), or fit_transform finds an
\* empty vocabulary (ValueError)
TrainRaises(df) ==
    \/ \E p \in DOMAIN df : df[p].features = << >>
    \/ \A p \in DOMAIN df : Analyze(df[p].features) = << >>

\* train() is run until it has completed
Train ==
    /\ last = NoCall
    /\ cosine_sim = << >>
    /\ IF TrainRaises(books_df)
       THEN /\ last' = [NoCall EXCEPT !.op = "train", !.kind = "raise"]
            /\ UNCHANGED <<books_df, cosine_sim, indices, prev>>
       ELSE /\ cosine_sim' = LinearKernel([p \in DOMAIN books_df |->
                                              Analyze(books_df[p].features)])
            /\ indices' = DropDuplicates(TitleSeries(books_df))
            /\ last' = Returned("train")
            /\ UNCHANGED <<books_df, prev>>

----------------------------------------------------------------------------
(* recommend *)

\* `title in self.indices`: the title is a label of the Series, exactly
TitleIn(ind, title) == \E k \in DOMAIN ind : ind[k].title = title

\* variant: idx.iloc[-1]
IlocLast(series) == series[Len(series)].value

\* idx.iloc[0]
Iloc0(series) == series[1].value

\* self.indices[title], then the isinstance(idx, pd.Series) branch: a title
\* borne by one entry yields its value, a title borne by several yields the
\* Series of their values
ResolveIdx(ind, title) ==
    LET idx == SelectSeq(ind, LAMBDA e : e.title = title)
    IN IF Len(idx) > 1 THEN Iloc0(idx) ELSE idx[1].value

\* list(enumerate(row)): the pairs <<position, score>>
Enumerate(row) == [k \in DOMAIN row |-> <<k - 1, row[k]>>]

\* variant: the pair is put ahead of the pairs of the same score
InsertDescAhead(sorted, x) ==
    LET ahead == Cardinality({k \in DOMAIN sorted : sorted[k][2] > x[2]})
    IN SubSeq(sorted, 1, ahead) \o <<x>> \o SubSeq(sorted, ahead + 1, Len(sorted))

\* one pair put into a list already in descending score order, behind the
\* pairs of the same score
InsertDesc(sorted, x) ==
    LET ahead == Cardinality({k \in DOMAIN sorted : sorted[k][2] >= x[2]})
    IN SubSeq(sorted, 1, ahead) \o <<x>> \o SubSeq(sorted, ahead + 1, Len(sorted))

RECURSIVE SortedFrom(_, _, _)
SortedFrom(pairs, k, sorted) ==
    IF k > Len(pairs) THEN sorted
    ELSE SortedFrom(pairs, k + 1, InsertDesc(sorted, pairs[k]))

\* sorted(sim_scores, key=lambda x: x[1], reverse=True): stable
SortedScores(pairs) == SortedFrom(pairs, 1, << >>)

\* a slice bound brought into 0..len as Python does
SliceBound(b, len) ==
    IF b < 0 THEN (IF b + len < 0 THEN 0 ELSE b + len)
    ELSE IF b > len THEN len ELSE b

\* seq[start:stop]
PySlice(seq, start, stop) ==
    SubSeq(seq, SliceBound(start, Len(seq)) + 1, SliceBound(stop, Len(seq)))

\* variant: sim_scores[1:top_n]
TopScoresShort(sorted, top_n) == PySlice(sorted, 1, top_n)

\* sim_scores[1:top_n+1]
TopScores(sorted, top_n) == PySlice(sorted, 1, top_n + 1)

\* variant: no early return, self.indices[title] raises KeyError
LookupRaises(call) == [call EXCEPT !.kind = "raise"]

\* return [] for a title the Series has no label for
NotFound(call) == [call EXCEPT !.kind = "list"]

\* the outcome of recommend(title, top_n) on the engine (df, sim, ind)
RecommendResult(df, sim, ind, title, top_n) ==
    LET call == [NoCall EXCEPT !.op = "recommend", !.title = title, !.top_n = top_n]
    IN IF ind = << >>
       THEN [call EXCEPT !.kind = "raise"]            \* `in` on None: TypeError
       ELSE IF ~TitleIn(ind, title)
       THEN NotFound(call)
       ELSE LET idx == ResolveIdx(ind, title)
                n == Len(sim)
            IN IF idx < 0 - n \/ idx >= n
               THEN [call EXCEPT !.kind = "raise", !.idx = idx]   \* IndexError
               ELSE LET row == sim[(IF idx < 0 THEN idx + n ELSE idx) + 1]
                        sim_scores == TopScores(SortedScores(Enumerate(row)), top_n)
                        book_indices == [k \in DOMAIN sim_scores |-> sim_scores[k][1]]
                    IN [call EXCEPT !.kind = "frame", !.idx = idx,
                                    !.items = book_indices]

\* variant: the row of the matrix is sorted in place
RecommendCallInPlace(title, top_n) ==
    /\ last' = RecommendResult(books_df, cosine_sim, indices, title, top_n)
    /\ cosine_sim' =
           IF indices # << >> /\ TitleIn(indices, title)
           THEN LET p == ResolveIdx(indices, title) + 1
                    sorted == SortedScores(Enumerate(cosine_sim[p]))
                IN [cosine_sim EXCEPT ![p] = [k \in DOMAIN sorted |-> sorted[k][2]]]
           ELSE cosine_sim
    /\ UNCHANGED <<books_df, indices, prev>>

RecommendCall(title, top_n) ==
    /\ last' = RecommendResult(books_df, cosine_sim, indices, title, top_n)
    /\ UNCHANGED <<books_df, cosine_sim, indices, prev>>

Recommend ==
    /\ last = NoCall
    /\ \E title \in QueryTitles, top_n \in TopNs : RecommendCall(title, top_n)

----------------------------------------------------------------------------
(* get_books_by_genre *)

KnownGenres == {"Fantasy", "Mystery", "Romance", "Sci-Fi", "Horror"}

\* the keywords dictionary
keywords ==
    [genre \in KnownGenres |->
    IF genre = "Fantasy" THEN <<
        <<"m", "a", "g", "i", "c">>,
        <<"w", "i", "z", "a", "r", "d">>,
        <<"d", "r", "a", "g", "o", "n">>,
        <<"f", "a", "n", "t", "a", "s", "y">>,
        <<"r", "i", "n", "g">>,
        <<"h", "a", "r", "r", "y", " ", "p", "o", "t", "t", "e", "r">>,
        <<"l", "o", "r", "d", " ", "o", "f", " ", "t", "h", "e", " ", "r", "i", "n", "g", "s">>,
        <<"h", "o", "b", "b", "i", "t">>,
        <<"w", "i", "t", "c", "h">>>> ELSE
    IF genre = "Mystery" THEN <<
        <<"m", "y", "s", "t", "e", "r", "y">>,
        <<"d", "e", "t", "e", "c", "t", "i", "v", "e">>,
        <<"m", "u", "r", "d", "e", "r">>,
        <<"c", "r", "i", "m", "e">>,
        <<"s", "h", "e", "r", "l", "o", "c", "k">>,
        <<"p", "o", "i", "r", "o", "t">>,
        <<"i", "n", "v", "e", "s", "t", "i", "g", "a", "t", "i", "o", "n">>,
        <<"t", "h", "r", "i", "l", "l", "e", "r">>>> ELSE
    IF genre = "Romance" THEN <<
        <<"l", "o", "v", "e">>,
        <<"r", "o", "m", "a", "n", "c", "e">>,
        <<"k", "i", "s", "s">>,
        <<"w", "e", "d", "d", "i", "n", "g">>,
        <<"b", "r", "i", "d", "e">>,
        <<"h", "e", "a", "r", "t">>>> ELSE
    IF genre = "Sci-Fi" THEN <<
        <<"s", "p", "a", "c", "e">>,
        <<"p", "l", "a", "n", "e", "t">>,
        <<"a", "l", "i", "e", "n">>,
        <<"g", "a", "l", "a", "x", "y">>,
        <<"s", "t", "a", "r", " ", "w", "a", "r", "s">>,
        <<"s", "c", "i", "f", "i">>,
        <<"s", "c", "i", "-", "f", "i">>,
        <<"r", "o", "b", "o", "t">>,
        <<"f", "u", "t", "u", "r", "e">>>> ELSE
    IF genre = "Horror" THEN <<
        <<"h", "o", "r", "r", "o", "r">>,
        <<"g", "h", "o", "s", "t">>,
        <<"v", "a", "m", "p", "i", "r", "e">>,
        <<"z", "o", "m", "b", "i", "e">>,
        <<"s", "c", "a", "r", "y">>,
        <<"h", "a", "u", "n", "t", "e", "d">>,
        <<"s", "t", "e", "p", "h", "e", "n", " ", "k", "i", "n", "g">>>> ELSE
    << >>]

\* keywords[genre], for a genre the dictionary has
Keywords(genre) == keywords[genre]

\* the pattern '|'.join(search_terms) compiled under re.IGNORECASE: the terms
\* with their letters folded
Pattern == [genre \in KnownGenres |-> [t \in DOMAIN keywords[genre] |-> Lower(keywords[genre][t])]]

\* variant: the pattern ends with '|', so the empty term is searched too
ContainsEmptyTerm(text, pattern) ==
    LET folded == Lower(text)
        terms == Append(pattern, << >>)
    IN \E t \in DOMAIN terms :
           \E off \in 0..(Len(text) - Len(terms[t])) :
               \A k \in DOMAIN terms[t] : folded[off + k] = terms[t][k]

\* Series.str.contains(pattern, case=False) on one title: some term of the
\* pattern occurs in the text at some offset, letters compared without case
Contains(text, pattern) ==
    LET folded == Lower(text)
    IN \E t \in DOMAIN pattern :
           \E off \in 0..(Len(text) - Len(pattern[t])) :
               \A k \in DOMAIN pattern[t] : folded[off + k] = pattern[t][k]

\* the positions of the rows kept by the boolean mask, in corpus order
Filtered(df, pattern) ==
    LET hit == {p \in DOMAIN df : Contains(df[p].title, pattern)}
        pos == [p \in DOMAIN df |-> p - 1]
    IN SelectSeq(pos, LAMBDA q : (q + 1) \in hit)

\* variant: DataFrame.sample(n, replace=True)
SampleWithReplacement(filtered, n) ==
    {[k \in 1..n |-> filtered[f[k]]] : f \in [1..n -> DOMAIN filtered]}

\* DataFrame.sample(n), n >= 0: the possible draws of n rows without
\* replacement, in any order
Sample(filtered, n) ==
    {[k \in 1..n |-> filtered[f[k]]] :
        f \in {g \in [1..n -> DOMAIN filtered] :
                  \A a, b \in 1..n : a # b => g[a] # g[b]}}

\* the possible outcomes of get_books_by_genre(genre, top_n), filtered_books
\* being the rows of the table that the mask of the genre keeps
GenreResults(filtered_books, genre, top_n) ==
    LET call == [NoCall EXCEPT !.op = "genre", !.genre = genre, !.top_n = top_n]
    IN IF genre \notin KnownGenres
       THEN {[call EXCEPT !.kind = "frame"]}          \* pd.DataFrame()
       ELSE IF Len(filtered_books) > top_n
            THEN IF top_n < 0
                 THEN {[call EXCEPT !.kind = "raise"]}   \* sample: ValueError
                 ELSE {[call EXCEPT !.kind = "frame", !.items = s] :
                          s \in Sample(filtered_books, top_n)}
            ELSE {[call EXCEPT !.kind = "frame", !.items = filtered_books]}

GetBooksByGenre ==
    /\ last = NoCall
    /\ \E genre \in QueryGenres :
           LET filtered_books == Filtered(books_df, Pattern[genre])
           IN \E top_n \in TopNs :
                  /\ last' \in GenreResults(filtered_books, genre, top_n)
                  /\ UNCHANGED <<books_df, cosine_sim, indices, prev>>

----------------------------------------------------------------------------
(* The engine and its callers *)

\* train() has completed: both structures it assigns are set
FullyBuilt == cosine_sim # << >> /\ indices # << >>

\* The caller takes the outcome of the call.
Return ==
    /\ last # NoCall
    /\ last' = NoCall
    /\ UNCHANGED <<books_df, cosine_sim, indices, prev>>

\* The caller takes what a recommend on the built engine returned and keeps
\* it, to compare a later answer with.
Keep ==
    /\ FullyBuilt
    /\ last.op = "recommend"
    /\ last' = NoCall
    /\ prev' = last
    /\ UNCHANGED <<books_df, cosine_sim, indices>>

\* The pipeline steps run once each (load_recommender); the two queries may
\* be called on the engine at any time, one call after the other.
Next ==
    \/ Preprocess
    \/ Train
    \/ Recommend
    \/ GetBooksByGenre
    \/ Return

Spec == Init /\ [][Next]_vars

\* the same engine under a caller that compares the answers of recommend
NextKeep ==
    \/ Preprocess
    \/ Train
    \/ Recommend
    \/ GetBooksByGenre
    \/ Return
    \/ Keep

SpecKeep == Init /\ [][NextKeep]_vars

\* the row labels a table of n rows can carry when it was cut out of a larger
\* table or re-ordered: n different labels among 0..MaxN
RowLabels(n) ==
    {l \in [1..n -> 0..MaxN] : \A a, b \in 1..n : a # b => l[a] # l[b]}

\* the engine constructed on a table of any such row labels
InitLabels ==
    /\ \E raw \in Datasets : \E labels \in RowLabels(Len(raw)) :
           books_df = Construct(raw, labels)
    /\ cosine_sim = << >>
    /\ indices = << >>
    /\ last = NoCall
    /\ prev = NoCall

SpecLabels == InitLabels /\ [][Next]_vars

----------------------------------------------------------------------------
(* Properties *)

N == Len(books_df)

Min(a, b) == IF a < b THEN a ELSE b

\* the corpus positions (0-based) of the rows that bear the title
Bearing(title) == {p \in 0..(N - 1) : books_df[p + 1].title = title}

\* the latest call is a recommend on the built engine, for a title of the corpus
RecommendedKnown ==
    FullyBuilt /\ last.op = "recommend" /\ Bearing(last.title) # {}

\* Similarity(i, j), 0-based
Similarity(i, j) == cosine_sim[i + 1][j + 1]

\* the title has keyword kw in it at some offset, letters compared without case
HasKeyword(title, kw) ==
    \E off \in 0..(Len(title) - Len(kw)) :
        \A k \in 1..Len(kw) : LowerChar(title[off + k]) = LowerChar(kw[k])

\* the corpus positions of the rows whose title has a keyword of the genre
Matching(genre) ==
    {p \in 0..(N - 1) :
        \E kw \in Range(Keywords(genre)) : HasKeyword(books_df[p + 1].title, kw)}

FiveGenres == {"Fantasy", "Mystery", "Romance", "Sci-Fi", "Horror"}

\* the latest call is a get_books_by_genre for one of the five genres that
\* returned a table
GenreReturned == last.op = "genre" /\ last.genre \in FiveGenres /\ last.kind = "frame"

\* C1: on a built engine, recommend(title, top_n) for a title of the corpus
\* never returns the item the title resolved to.
C1_NeverSelf ==
    RecommendedKnown =>
        /\ last.kind = "frame"
        /\ \A k \in DOMAIN last.items : last.items[k] # last.idx

\* C2: on a built engine over N items, recommend(title, top_n) for a title of
\* the corpus and top_n >= 0 returns exactly min(top_n, N - 1) items.
C2_ResultSize ==
    (RecommendedKnown /\ last.top_n >= 0) =>
        /\ last.kind = "frame"
        /\ Len(last.items) = Min(last.top_n, N - 1)

\* C2 witness: top_n exceeds the rest of the corpus and N - 1 >= 1 items come back
C2_Witness ==
    /\ RecommendedKnown
    /\ N >= 2
    /\ last.top_n > N - 1
    /\ Len(last.items) = N - 1

\* C3: the items recommend returns are in descending order of similarity to
\* the query item, and items of equal similarity in ascending corpus order.
C3_Ranked ==
    (RecommendedKnown /\ last.kind = "frame") =>
        \A a, b \in DOMAIN last.items :
            a < b =>
                \/ Similarity(last.idx, last.items[a]) > Similarity(last.idx, last.items[b])
                \/ /\ Similarity(last.idx, last.items[a]) = Similarity(last.idx, last.items[b])
                   /\ last.items[a] < last.items[b]

\* C3 witness: two returned items tied at a non-zero similarity, after an
\* item of another similarity or not
C3_Witness ==
    /\ RecommendedKnown
    /\ last.kind = "frame"
    /\ Len(last.items) >= 2
    /\ Similarity(last.idx, last.items[1]) = Similarity(last.idx, last.items[2])
    /\ Similarity(last.idx, last.items[1]) > 0

\* C4: on a built engine, recommend for a title that no corpus item bears
\* exactly returns an empty list, and get_books_by_genre for a category
\* outside the five returns an empty table; neither raises.
C4_NotFoundIsEmpty ==
    FullyBuilt =>
        /\ (last.op = "recommend" /\ Bearing(last.title) = {}) =>
               (last.kind = "list" /\ last.items = << >>)
        /\ (last.op = "genre" /\ last.genre \notin FiveGenres) =>
               (last.kind = "frame" /\ last.items = << >>)

\* C4 witness: the title asked for differs only in case from a title of the corpus
C4_Witness ==
    /\ FullyBuilt
    /\ last.op = "recommend"
    /\ Bearing(last.title) = {}
    /\ \E p \in 1..N : Lower(books_df[p].title) = last.title
    /\ last.top_n >= 1
    /\ N >= 2
    /\ last.kind = "list"

\* C5: when several corpus items bear the title, recommend uses the row of
\* the first of them in corpus order.
C5_FirstOccurrence ==
    RecommendedKnown =>
        /\ last.kind = "frame"
        /\ last.idx \in Bearing(last.title)
        /\ \A p \in Bearing(last.title) : last.idx <= p

\* C5 witness: two items of different features bear the title asked for
C5_Witness ==
    /\ RecommendedKnown
    /\ \E p, q \in Bearing(last.title) :
           p < q /\ books_df[p + 1].author # books_df[q + 1].author
    /\ last.idx \in Bearing(last.title)

\* C6: every item get_books_by_genre returns for one of the five genres is a
\* corpus item whose title has, case-insensitively, a keyword of the genre in it.
C6_OnlyMatching ==
    GenreReturned => \A k \in DOMAIN last.items : last.items[k] \in Matching(last.genre)

\* C6 witness: an item is returned for a keyword inside a word of another case
C6_Witness ==
    /\ GenreReturned
    /\ last.genre = "Fantasy"
    /\ \E k \in DOMAIN last.items :
           books_df[last.items[k] + 1].title = <<"L", "O", "V", "E", " ", "S", "P", "R", "I", "N", "G">>
    /\ Matching("Fantasy") # 0..(N - 1)

\* C7: get_books_by_genre for one of the five genres and a count top_n >= 0
\* returns top_n distinct matching items when more than top_n items match,
\* and otherwise every matching item once.
C7_SampleOrAll ==
    (last.op = "genre" /\ last.genre \in FiveGenres /\ last.top_n >= 0) =>
        /\ last.kind = "frame"
        /\ IF Cardinality(Matching(last.genre)) > last.top_n
           THEN /\ Len(last.items) = last.top_n
                /\ \A a, b \in DOMAIN last.items : a # b => last.items[a] # last.items[b]
                /\ Range(last.items) \subseteq Matching(last.genre)
           ELSE /\ Range(last.items) = Matching(last.genre)
                /\ Len(last.items) = Cardinality(Matching(last.genre))

\* C7 witness: two items drawn out of three matching ones
C7_Witness ==
    /\ GenreReturned
    /\ Cardinality(Matching(last.genre)) = 3
    /\ last.top_n = 2
    /\ Len(last.items) = 2

\* C8: on a built engine neither query ever raises, whatever the title, the
\* category and the integer top_n.
C8_Total ==
    (FullyBuilt /\ last.op \in {"recommend", "genre"}) => last.kind # "raise"

\* C9: on a built engine a query leaves books_df, cosine_sim and indices as
\* they are, and recommend called with the title and top_n of an earlier call
\* returns the same ordered result, whatever was called in between.
C9_PureReads ==
    [][(FullyBuilt /\ last'.op \in {"recommend", "genre"}) =>
          /\ UNCHANGED <<books_df, cosine_sim, indices>>
          /\ (/\ prev.op = "recommend" /\ last'.op = "recommend"
              /\ last'.title = prev.title /\ last'.top_n = prev.top_n)
                 => last' = prev]_vars

\* C9 witness: a recommend on the built engine returned the items that an
\* earlier call with the same title and top_n returned
C9_Witness ==
    /\ RecommendedKnown
    /\ last.kind = "frame"
    /\ Len(last.items) >= 2
    /\ prev.op = "recommend"
    /\ prev.title = last.title /\ prev.top_n = last.top_n
    /\ prev.items = last.items

\* C10: while preprocess or train has not completed, no query yields a result.
C10_UnusableUntilBuilt ==
    (~FullyBuilt /\ last.op \in {"recommend", "genre"}) => last.kind = "raise"

\* the item at corpus position i has no term left after tokenizing and
\* dropping the stop words: its feature vector is the zero vector
ZeroVector(i) ==
    LET row == books_df[i + 1]
    IN \A t \in Range(Runs(Lower(row.title \o Space \o row.author \o Space \o row.publisher),
                           1, << >>)) : t \in StopWords

\* C11: in the matrix train() builds, every item's self-similarity is the
\* maximum of its row: 1.0 for an item of non-zero feature vector, and 0.0,
\* with the whole row 0, for an item whose text yields the zero vector.
C11_SelfSimilarity ==
    FullyBuilt =>
        \A i \in 0..(N - 1) :
            /\ \A j \in 0..(N - 1) : Similarity(i, j) <= Similarity(i, i)
            /\ IF ZeroVector(i)
               THEN \A j \in 0..(N - 1) : Similarity(i, j) = 0
               ELSE Similarity(i, i) = 1000

\* C11 witness: a built matrix with a zero-vector item and two other items
\* of a similarity strictly between 0 and 1
C11_Witness ==
    /\ FullyBuilt
    /\ \E i \in 0..(N - 1) : ZeroVector(i) /\ Similarity(i, i) = 0
    /\ \E i, j \in 0..(N - 1) :
           /\ Similarity(i, j) > 0
           /\ Similarity(i, j) < Similarity(i, i)

\* j comes before k in the ranking of the row of item i: by similarity
\* descending, ties by ascending corpus position
Outranks(i, j, k) ==
    \/ Similarity(i, j) > Similarity(i, k)
    \/ Similarity(i, j) = Similarity(i, k) /\ j < k

\* the ranking of all corpus items other than item i
RankingOfOthers(i) ==
    LET others == {j \in 0..(N - 1) : j # i}
        place(j) == 1 + Cardinality({k \in others : Outranks(i, k, j)})
    IN [r \in 1..Cardinality(others) |-> CHOOSE j \in others : place(j) = r]

\* C12: recommend(title, top_n) for a title of the corpus and top_n >= 0
\* returns exactly the first top_n entries of the ranking (similarity
\* descending, ties by ascending corpus position) of all corpus items other
\* than the query item.
C12_TopOfRanking ==
    (RecommendedKnown /\ last.top_n >= 0) =>
        /\ last.kind = "frame"
        /\ last.items = SubSeq(RankingOfOthers(last.idx), 1, Min(last.top_n, N - 1))

\* C13: for every title of the corpus, the index the title map built by
\* train() yields is a row position 0..N-1 of the similarity matrix, and the
\* corpus item at that position bears the title, whatever row labels the
\* table handed to the constructor carries.
C13_OneIndexSpace ==
    FullyBuilt =>
        \A p \in 1..N :
            LET idx == ResolveIdx(indices, books_df[p].title)
            IN /\ idx \in 0..(N - 1)
               /\ books_df[idx + 1].title = books_df[p].title

====
